---- MODULE Spec2Model ----
(***************************************************************************)
(* Blog admin frontend: the useApi composable (fetchData / clearCache over *)
(* an in-memory Map), the blog post list component and the blog post form  *)
(* component.  JavaScript runs one task at a time: an action below is one  *)
(* task (a user event or the arrival of an HTTP response) together with    *)
(* every microtask continuation it triggers.                               *)
(***************************************************************************)
EXTENDS Integers, Sequences, FiniteSets, TLC

\* ------------------------------------------------------------------ bounds
\* network requests issued in one run (bounds the request history)
MaxReq == 4
\* direct fetchData and clearCache calls on the stand-alone useApi instance
MaxCalls == 3
\* write requests (PUT or POST) the form sends in one run
MaxSubmits == 1
\* post identifiers the server hands out are 1..MaxPostId
MaxPostId == 2

\* longest list of posts the filter is applied to
MaxPosts == 3

\* longest text over the whole alphabet that is truncated
MaxText == 3

\* ------------------------------------------------------------------ values
PostIds == 1..MaxPostId

Instances == {"api", "list", "form"}

\* `blogs/${id}`
BlogEp(id) == <<"blogs", id>>

BlogsEp == <<"blogs", 0>>

AuthorsEp == <<"authors", 0>>

\* ---------------------------------------------------------------- useApi
\* const cache = new Map<string, any>()
EmptyCache == [k \in {} |-> 0]

\* cache.has(endpoint)
CacheHasNever(c, endpoint) == FALSE

CacheHas(c, endpoint) == endpoint \in DOMAIN c

\* cache.get(endpoint)
CacheGet(c, endpoint) == c[endpoint]

\* cache.set(endpoint, data)
CacheSetIfAbsent(c, endpoint, data) ==
    [k \in DOMAIN c \cup {endpoint} |-> IF k \in DOMAIN c THEN c[k] ELSE data]

CacheSet(c, endpoint, data) ==
    [k \in DOMAIN c \cup {endpoint} |-> IF k = endpoint THEN data ELSE c[k]]

\* clearCache(endpoint): cache.delete(endpoint)
clearCacheNoop(c, endpoint) == c

clearCacheAll(c, endpoint) == [k \in {} |-> 0]

clearCache(c, endpoint) == [k \in DOMAIN c \ {endpoint} |-> c[k]]

\* --------------------------------------------------------------- state
VARIABLES
    cache,            \* per useApi instance: the Map endpoint -> decoded body
    net,              \* every network request issued so far, in order
    pending,          \* indices of net whose response has not arrived
    lastOp,           \* the handler the last task ran
    log,              \* stand-alone instance: its calls, returns and clears
    isLoading, isDeleting, blogPosts, showConfirmModal, postToDelete,
    selectedStatus, listMounted,
    isSubmitting, authors, currentAuthor, blogPost, errors, form,
    routeId, formMounted, navigated

apiVars == <<cache, net, pending, lastOp>>

logVars == <<log>>

listVars == <<isLoading, isDeleting, blogPosts, showConfirmModal, postToDelete,
              selectedStatus, listMounted>>

formVars == <<isSubmitting, authors, currentAuthor, blogPost, errors, form,
              routeId, formMounted, navigated>>

vars == <<apiVars, logVars, listVars, formVars>>

\* null / undefined of an id-valued ref
Null == -1

\* JavaScript truthiness of a number-or-null
TruthyAlways(x) == TRUE

Truthy(x) == x # Null /\ x # 0

\* decoded body standing for "none"
NoVal == [tag |-> "none"]

\* a task: a handler called with arg
Op(name, arg) == [op |-> name, arg |-> arg, ok |-> TRUE, data |-> NoVal]

\* a task: the response to request r arrives, response.ok being ok and the
\* decoded body being data
Resp(r, ok, data) == [op |-> "response", arg |-> r, ok |-> ok, data |-> data]

\* ------------------------------------------------------ network requests
\* fetch(`${apiUrl}/${endpoint}`, { ...options, headers }): one request on the
\* wire; cont names the code that awaits it
Request(inst, endpoint, method, body, cont) ==
    [inst |-> inst, endpoint |-> endpoint, method |-> method, body |-> body,
     cont |-> cont]

NoBody == <<>>

\* the request is appended to the history and awaits its response
\* (P: the requests still awaiting a response when it is issued)
Issue(P, req) ==
    /\ Len(net) < MaxReq
    /\ net' = Append(net, req)
    /\ pending' = P \cup {Len(net) + 1}

\* no request is issued
NoIssue(P) == net' = net /\ pending' = P

\* the continuation awaiting a request
Cont(name, arg) == <<name, arg>>

\* ---------------------------------------------- stand-alone useApi instance
ApiEndpoints == {BlogsEp, AuthorsEp}

ApiMethods == {"GET", "POST"}

\* decoded bodies the server may answer a direct call with
RawBodies == {[tag |-> "json", v |-> n] : n \in 1..2}

\* raw body text of a response whose status is not a success
ErrTexts == {[tag |-> "text", text |-> "server error"]}

\* new Error(await response.text())
ErrorGeneric(text) == [tag |-> "error", message |-> "Request failed"]

ErrorWithResponse(text) ==
    [tag |-> "error", message |-> text,
     response |-> [data |-> [errors |-> <<text>>]]]

Error(text) == [tag |-> "error", message |-> text]

\* the TypeError fetch() rejects with when no response was received
TypeError == [tag |-> "error", message |-> "Failed to fetch"]

\* the options of a direct call: { method }
Options(method) == [tag |-> "options", method |-> method]

\* log entries: call number id of fetchData(endpoint) was made and issued
\* request req (0: answered from the cache); call id settled (ok: returned val,
\* otherwise threw); clearCache(endpoint) was called
CallEv(endpoint, id, req) ==
    [ev |-> "call", endpoint |-> endpoint, call |-> id, req |-> req,
     ok |-> TRUE, val |-> NoVal]

DoneEv(endpoint, id, ok, val) ==
    [ev |-> "done", endpoint |-> endpoint, call |-> id, req |-> 0,
     ok |-> ok, val |-> val]

ClearEv(endpoint) ==
    [ev |-> "clear", endpoint |-> endpoint, call |-> 0, req |-> 0,
     ok |-> TRUE, val |-> NoVal]

NumEv(kind) == Cardinality({k \in 1..Len(log) : log[k].ev = kind})

\* fetchData(endpoint, {method}) called directly: the synchronous part, up to
\* the return of the cached value or the await of fetch()
ApiFetch(endpoint, method) ==
    LET id == NumEv("call") + 1 IN
    /\ NumEv("call") + NumEv("clear") < MaxCalls
    /\ lastOp' = [Op("fetchData", 0) EXCEPT !.data = Options(method)]
    /\ IF CacheHas(cache["api"], endpoint)
       THEN /\ log' = log \o <<CallEv(endpoint, id, 0),
                               DoneEv(endpoint, id, TRUE,
                                      CacheGet(cache["api"], endpoint))>>
            /\ UNCHANGED <<cache, net, pending>>
       ELSE /\ Issue(pending, Request("api", endpoint, method, NoBody, Cont("api", id)))
            /\ log' = Append(log, CallEv(endpoint, id, Len(net) + 1))
            /\ UNCHANGED cache
    /\ UNCHANGED <<listVars, formVars>>

\* the response to a direct fetchData call arrives: !response.ok throws an
\* Error of the body text (data), otherwise the decoded body (data) is stored
\* and returned
ApiRespond(r, ok, data) ==
    /\ r \in pending
    /\ net[r].inst = "api"
    /\ NoIssue(pending \ {r})
    /\ lastOp' = Resp(r, ok, data)
    /\ IF ok
       THEN /\ cache' = [cache EXCEPT !["api"] = CacheSet(@, net[r].endpoint, data)]
            /\ log' = Append(log, DoneEv(net[r].endpoint, net[r].cont[2], TRUE, data))
       ELSE /\ cache' = cache
            /\ log' = Append(log, DoneEv(net[r].endpoint, net[r].cont[2], FALSE,
                                          Error(data.text)))
    /\ UNCHANGED <<listVars, formVars>>

\* clearCache(endpoint) called directly
ApiClear(endpoint) ==
    /\ NumEv("call") + NumEv("clear") < MaxCalls
    /\ lastOp' = Op("clearCache", 0)
    /\ cache' = [cache EXCEPT !["api"] = clearCache(@, endpoint)]
    /\ log' = Append(log, ClearEv(endpoint))
    /\ UNCHANGED <<net, pending, listVars, formVars>>

\* ------------------------------------------------------- list component
Statuses == {"published", "unpublished"}

\* a BlogPost as the server lists it
Post(id) ==
    [id |-> id, title |-> "T", content |-> "C", author |-> "Ann",
     status |-> IF id % 2 = 1 THEN "published" ELSE "unpublished"]

RECURSIVE Ascending(_)
\* the posts of a set of ids, by ascending id
Ascending(S) ==
    IF S = {} THEN <<>>
    ELSE LET m == CHOOSE x \in S : \A y \in S : x <= y
         IN <<Post(m)>> \o Ascending(S \ {m})

\* decoded bodies of GET blogs: { data: BlogPost[] }, or an object without data
ListBodies ==
    {[tag |-> "list", data |-> Ascending(S)] : S \in SUBSET PostIds}
        \cup {[tag |-> "nodata"]}

\* decoded body of a write (DELETE, PUT, POST)
Ack == [tag |-> "ack"]

\* response.data || []
DataOrEmpty(response) ==
    IF "data" \in DOMAIN response THEN response.data ELSE <<>>

RECURSIVE FilterReversed(_, _)
FilterReversed(posts, status) ==
    IF posts = <<>> THEN <<>>
    ELSE FilterReversed(Tail(posts), status)
             \o (IF Head(posts).status = status THEN <<Head(posts)>> ELSE <<>>)

RECURSIVE Filter(_, _)
\* blogPosts.value.filter((post) => post.status === status)
Filter(posts, status) ==
    IF posts = <<>> THEN <<>>
    ELSE (IF Head(posts).status = status THEN <<Head(posts)>> ELSE <<>>)
             \o Filter(Tail(posts), status)

\* computed filteredBlogPosts
filteredBlogPosts ==
    IF selectedStatus = "all" THEN blogPosts
    ELSE Filter(blogPosts, selectedStatus)

\* finally { isLoading.value = false; }
fetchBlogPostsFinallyMissing == isLoading' = isLoading

fetchBlogPostsFinally == isLoading' = FALSE

\* fetchBlogPosts() run with the cache being c: fetchData("blogs") answers from
\* the cache (try and finally bodies run at once) or awaits the network;
\* after names what the caller does once fetchBlogPosts has settled
fetchBlogPosts(c, P, after) ==
    IF CacheHas(c, BlogsEp)
    THEN /\ blogPosts' = DataOrEmpty(CacheGet(c, BlogsEp))
         /\ fetchBlogPostsFinally
         /\ NoIssue(P)
    ELSE /\ isLoading' = TRUE
         /\ Issue(P, Request("list", BlogsEp, "GET", NoBody, Cont(after, 0)))
         /\ blogPosts' = blogPosts

\* onMounted(() => fetchBlogPosts())
ListMounted ==
    /\ ~listMounted
    /\ listMounted' = TRUE
    /\ lastOp' = Op("onMounted", 0)
    /\ fetchBlogPosts(cache["list"], pending, "load")
    /\ UNCHANGED <<cache, log, isDeleting, showConfirmModal, postToDelete,
                   selectedStatus, formVars>>

\* v-model="selectedStatus"
SelectStatus(status) ==
    /\ listMounted
    /\ selectedStatus' = status
    /\ lastOp' = Op("selectStatus", 0)
    /\ UNCHANGED <<cache, net, pending, log, isLoading, isDeleting, blogPosts,
                   showConfirmModal, postToDelete, listMounted, formVars>>

\* confirmDelete(post.id), from the Delete button of a displayed post
confirmDelete(id) ==
    /\ listMounted
    /\ \E k \in 1..Len(filteredBlogPosts) : filteredBlogPosts[k].id = id
    /\ postToDelete' = id
    /\ showConfirmModal' = TRUE
    /\ lastOp' = Op("confirmDelete", id)
    /\ UNCHANGED <<cache, net, pending, log, isLoading, isDeleting, blogPosts,
                   selectedStatus, listMounted, formVars>>

\* cancelDelete(), from the Cancel button (:disabled="isDeleting")
cancelDeleteModalOnly ==
    /\ listMounted
    /\ ~isDeleting
    /\ showConfirmModal' = FALSE
    /\ lastOp' = Op("cancelDelete", 0)
    /\ UNCHANGED <<cache, net, pending, log, isLoading, isDeleting, blogPosts,
                   postToDelete, selectedStatus, listMounted, formVars>>

cancelDelete ==
    /\ listMounted
    /\ ~isDeleting
    /\ showConfirmModal' = FALSE
    /\ postToDelete' = Null
    /\ lastOp' = Op("cancelDelete", 0)
    /\ UNCHANGED <<cache, net, pending, log, isLoading, isDeleting, blogPosts,
                   selectedStatus, listMounted, formVars>>

\* finally { isDeleting.value = false; }
proceedDeleteFinallyMissing == isDeleting' = isDeleting

proceedDeleteFinally == isDeleting' = FALSE

\* proceedDelete after its DELETE resolved, the cache being c:
\* clearCache("blogs"); await fetchBlogPosts(); then, if the reload settled at
\* once, the rest of the try body and the finally
DeleteSucceeded(c, P, deleting) ==
    LET c1 == clearCache(c, BlogsEp) IN
    /\ cache' = [cache EXCEPT !["list"] = c1]
    /\ fetchBlogPosts(c1, P, "reload")
    /\ IF CacheHas(c1, BlogsEp)
       THEN /\ showConfirmModal' = FALSE
            /\ postToDelete' = Null
            /\ proceedDeleteFinally
       ELSE /\ isDeleting' = deleting
            /\ UNCHANGED <<showConfirmModal, postToDelete>>

\* proceedDelete(): the task of the click on the confirm button
\* (:disabled="isDeleting")
proceedDelete ==
    /\ listMounted
    /\ ~isDeleting
    /\ lastOp' = Op("proceedDelete", postToDelete)
    /\ IF ~Truthy(postToDelete)
       THEN UNCHANGED <<cache, net, pending, listVars>>
       ELSE IF CacheHas(cache["list"], BlogEp(postToDelete))
            THEN DeleteSucceeded(cache["list"], pending, TRUE)
            ELSE /\ isDeleting' = TRUE
                 /\ Issue(pending, Request("list", BlogEp(postToDelete), "DELETE",
                                           NoBody, Cont("delete", 0)))
                 /\ UNCHANGED <<cache, isLoading, blogPosts, showConfirmModal,
                                postToDelete>>
    /\ UNCHANGED <<log, selectedStatus, listMounted, formVars>>

\* the response to the GET blogs of the mount arrives: fetchData stores and
\* returns the body or throws; fetchBlogPosts logs a failure
LoadResponse(r, ok, data) ==
    /\ r \in pending
    /\ net[r].inst = "list"
    /\ net[r].cont[1] = "load"
    /\ lastOp' = Resp(r, ok, data)
    /\ NoIssue(pending \ {r})
    /\ IF ok
       THEN /\ cache' = [cache EXCEPT !["list"] = CacheSet(@, net[r].endpoint, data)]
            /\ blogPosts' = DataOrEmpty(data)
       ELSE UNCHANGED <<cache, blogPosts>>
    /\ fetchBlogPostsFinally
    /\ UNCHANGED <<log, isDeleting, showConfirmModal, postToDelete,
                   selectedStatus, listMounted, formVars>>

\* the response to the GET blogs of a reload arrives: fetchBlogPosts settles
\* (it never rethrows) and proceedDelete runs to its end
ReloadResponse(r, ok, data) ==
    /\ r \in pending
    /\ net[r].inst = "list"
    /\ net[r].cont[1] = "reload"
    /\ lastOp' = Resp(r, ok, data)
    /\ NoIssue(pending \ {r})
    /\ IF ok
       THEN /\ cache' = [cache EXCEPT !["list"] = CacheSet(@, net[r].endpoint, data)]
            /\ blogPosts' = DataOrEmpty(data)
       ELSE UNCHANGED <<cache, blogPosts>>
    /\ fetchBlogPostsFinally
    /\ showConfirmModal' = FALSE
    /\ postToDelete' = Null
    /\ proceedDeleteFinally
    /\ UNCHANGED <<log, selectedStatus, listMounted, formVars>>

\* the response to a DELETE arrives: on success the body is cached under
\* blogs/{id} and proceedDelete goes on; on failure it logs and ends
DeleteResponse(r, ok, data) ==
    /\ r \in pending
    /\ net[r].inst = "list"
    /\ net[r].cont[1] = "delete"
    /\ lastOp' = Resp(r, ok, data)
    /\ IF ok
       THEN DeleteSucceeded(CacheSet(cache["list"], net[r].endpoint, data),
                            pending \ {r}, isDeleting)
       ELSE /\ proceedDeleteFinally
            /\ NoIssue(pending \ {r})
            /\ UNCHANGED <<cache, isLoading, blogPosts, showConfirmModal,
                           postToDelete>>
    /\ UNCHANGED <<log, selectedStatus, listMounted, formVars>>

\* ------------------------------------------------------ truncateContent
\* a string is the sequence of its characters
Alphabet == {"a", "b"}

Ellipsis == <<".", ".", ".">>

\* maxLength: number = 100
DefaultMaxLength == 100

Min(a, b) == IF a <= b THEN a ELSE b

\* content.slice(0, end), end being a non-negative integer
Slice(content, end) == SubSeq(content, 1, Min(end, Len(content)))

truncateContentStrict(content, maxLength) ==
    IF Len(content) < maxLength THEN content
    ELSE Slice(content, maxLength) \o Ellipsis

\* truncateContent(content, maxLength)
truncateContent(content, maxLength) ==
    IF Len(content) <= maxLength THEN content
    ELSE Slice(content, maxLength) \o Ellipsis

Hello == <<"h", "e", "l", "l", "o">>

Digits == <<"0", "1", "2", "3", "4", "5", "6", "7", "8", "9", "X">>

\* a text of n characters
LongText(n) == [i \in 1..n |-> IF i % 2 = 1 THEN "a" ELSE "b"]

\* the post contents rendered: every short text, texts around the default
\* maximum, and two sample texts
Contents ==
    UNION {[1..n -> Alphabet] : n \in 0..MaxText}
        \cup {LongText(n) : n \in (DefaultMaxLength - 1)..(DefaultMaxLength + 2)}
        \cup {Hello, Digits}

\* the maxLength arguments; Null stands for an omitted argument
MaxLengths == 0..(MaxText + 1) \cup {10, Null}

\* {{ truncateContent(post.content) }}, or a call that passes maxLength:
\* the text to render and the argument are held in lastOp
RenderExcerpt ==
    /\ lastOp.op = "render"
    /\ LET content == lastOp.data.chars
           maxLength == IF lastOp.arg = Null THEN DefaultMaxLength ELSE lastOp.arg
       IN lastOp' = [op |-> "truncateContent", arg |-> lastOp.arg, ok |-> TRUE,
                     data |-> [tag |-> "text", chars |-> content,
                               result |-> truncateContent(content, maxLength)]]
    /\ UNCHANGED <<cache, net, pending, log, listVars, formVars>>

\* ------------------------------------------------------- form component
\* an Author of the server
Author(id, name) == [id |-> id, name |-> name]

\* decoded bodies of GET authors: { data: Author[] }
AuthorBodies ==
    {[tag |-> "list", data |-> a] :
        a \in {<<>>, <<Author(1, "Ann")>>, <<Author(1, "Ann"), Author(2, "Bob")>>}}

\* JSON null, and blogPost.value = null
NullBody == [tag |-> "null"]

\* decoded bodies of GET blogs/{id}: the (partial) BlogPost of that id, a
\* missing id or author being 0 or "", or null
PostBodies(id) ==
    {[tag |-> "post", id |-> n, title |-> "T", content |-> "C", author |-> a,
      status |-> "unpublished"] : n \in {0, id}, a \in {"", "Ann", "Bob"}}
        \cup {NullBody}

\* form.author holds an Author object, or (after the watch copied
\* newBlogPost.author) the author's display name, a string
AuthorObj(id, name) == [kind |-> "obj", id |-> id, name |-> name]

AuthorStr(name) == [kind |-> "str", id |-> Null, name |-> name]

\* form.value.author.id: undefined on a string
HeldAuthorId(f) == IF f.author.kind = "str" THEN Null ELSE f.author.id

DefaultForm ==
    [title |-> "", content |-> "", author |-> AuthorObj(0, ""),
     status |-> "published"]

\* authors.value.find(author => author.name === currentAuthor.value)
FindAuthor(list, name) ==
    LET hits == {k \in 1..Len(list) : list[k].name = name}
    IN IF hits = {} THEN <<>>
       ELSE <<list[CHOOSE k \in hits : \A j \in hits : k <= j]>>

\* the watch on blogPost: the draft built from newBlogPost
FormOfResolved(newBlogPost) ==
    IF newBlogPost.tag = "post"
    THEN [title |-> newBlogPost.title,
          content |-> newBlogPost.content,
          author |-> IF FindAuthor(authors, newBlogPost.author) # <<>>
                     THEN AuthorObj(FindAuthor(authors, newBlogPost.author)[1].id,
                                    newBlogPost.author)
                     ELSE IF newBlogPost.author # "" THEN AuthorStr(newBlogPost.author)
                     ELSE AuthorObj(0, ""),
          status |-> IF newBlogPost.status # "" THEN newBlogPost.status
                     ELSE "published"]
    ELSE DefaultForm

FormOf(newBlogPost) ==
    IF newBlogPost.tag = "post"
    THEN [title |-> newBlogPost.title,
          content |-> newBlogPost.content,
          author |-> IF newBlogPost.author # "" THEN AuthorStr(newBlogPost.author)
                     ELSE AuthorObj(0, ""),
          status |-> IF newBlogPost.status # "" THEN newBlogPost.status
                     ELSE "published"]
    ELSE DefaultForm

\* computed isEditMode: !!blogPost.value?.id
isEditMode == blogPost.tag = "post" /\ Truthy(blogPost.id)

\* const authorId = selectedAuthor ? selectedAuthor.id : form.value.author.id
ResolvedAuthorIdHeldOnly == HeldAuthorId(form)

ResolvedAuthorId ==
    LET selectedAuthor == FindAuthor(authors, currentAuthor)
    IN IF selectedAuthor # <<>> THEN selectedAuthor[1].id ELSE HeldAuthorId(form)

Payload(f, authorId) ==
    [title |-> f.title, content |-> f.content, author_id |-> authorId,
     status |-> f.status]

ErrPost == "Failed to fetch the blog post."

ErrAuthors == "Failed to fetch authors."

ErrAuthorRequired == "Author is required."

ErrUnexpected == "An unexpected error occurred. Please try again."

\* onMounted(() => { fetchBlogPost(); fetchAuthors(); }) with route.params.id
\* being id (0: the route has no id); the Map of this instance is still empty,
\* so each fetchData goes to the network
FormMounted(id) ==
    LET post == IF id # 0
                THEN <<Request("form", BlogEp(id), "GET", NoBody, Cont("post", 0))>>
                ELSE <<>>
        reqs == post \o <<Request("form", AuthorsEp, "GET", NoBody, Cont("authors", 0))>>
    IN /\ ~formMounted
       /\ cache["form"] = EmptyCache
       /\ Len(net) + Len(reqs) <= MaxReq
       /\ formMounted' = TRUE
       /\ routeId' = id
       /\ net' = net \o reqs
       /\ pending' = pending \cup (Len(net) + 1 .. Len(net) + Len(reqs))
       /\ lastOp' = Op("onMounted", id)
       /\ UNCHANGED <<cache, log, listVars, isSubmitting, authors, currentAuthor,
                      blogPost, errors, form, navigated>>

\* the response to fetchBlogPost's request arrives; the watch on blogPost
\* replaces the draft when blogPost changed
PostResponse(r, ok, data) ==
    /\ r \in pending
    /\ net[r].inst = "form"
    /\ net[r].cont[1] = "post"
    /\ lastOp' = Resp(r, ok, data)
    /\ NoIssue(pending \ {r})
    /\ IF ok
       THEN /\ cache' = [cache EXCEPT !["form"] = CacheSet(@, net[r].endpoint, data)]
            /\ blogPost' = data
            /\ currentAuthor' = IF data.tag = "post" THEN data.author ELSE ""
            /\ form' = IF data # blogPost THEN FormOf(data) ELSE form
            /\ errors' = errors
       ELSE /\ errors' = Append(errors, ErrPost)
            /\ UNCHANGED <<cache, blogPost, currentAuthor, form>>
    /\ UNCHANGED <<log, listVars, isSubmitting, authors, routeId, formMounted,
                   navigated>>

\* the response to fetchAuthors' request arrives
AuthorsResponse(r, ok, data) ==
    /\ r \in pending
    /\ net[r].inst = "form"
    /\ net[r].cont[1] = "authors"
    /\ lastOp' = Resp(r, ok, data)
    /\ NoIssue(pending \ {r})
    /\ IF ok
       THEN /\ cache' = [cache EXCEPT !["form"] = CacheSet(@, net[r].endpoint, data)]
            /\ authors' = data.data
            /\ errors' = errors
       ELSE /\ errors' = Append(errors, ErrAuthors)
            /\ UNCHANGED <<cache, authors>>
    /\ UNCHANGED <<log, listVars, isSubmitting, currentAuthor, blogPost, form,
                   routeId, formMounted, navigated>>

\* v-model="form.title"
SetTitle(t) ==
    /\ formMounted /\ ~navigated
    /\ form' = [form EXCEPT !.title = t]
    /\ lastOp' = Op("input", 0)
    /\ UNCHANGED <<cache, net, pending, log, listVars, isSubmitting, authors,
                   currentAuthor, blogPost, errors, routeId, formMounted, navigated>>

\* v-model="form.content"
SetContent(t) ==
    /\ formMounted /\ ~navigated
    /\ form' = [form EXCEPT !.content = t]
    /\ lastOp' = Op("input", 0)
    /\ UNCHANGED <<cache, net, pending, log, listVars, isSubmitting, authors,
                   currentAuthor, blogPost, errors, routeId, formMounted, navigated>>

\* v-model="form.status"
SetStatus(st) ==
    /\ formMounted /\ ~navigated
    /\ form' = [form EXCEPT !.status = st]
    /\ lastOp' = Op("input", 0)
    /\ UNCHANGED <<cache, net, pending, log, listVars, isSubmitting, authors,
                   currentAuthor, blogPost, errors, routeId, formMounted, navigated>>

\* v-model="form.author": an option of the loaded authors is chosen
SelectAuthor(k) ==
    /\ formMounted /\ ~navigated
    /\ k \in 1..Len(authors)
    /\ form' = [form EXCEPT !.author = AuthorObj(authors[k].id, authors[k].name)]
    /\ lastOp' = Op("input", 0)
    /\ UNCHANGED <<cache, net, pending, log, listVars, isSubmitting, authors,
                   currentAuthor, blogPost, errors, routeId, formMounted, navigated>>

NumSubmits == Cardinality({k \in 1..Len(net) : net[k].cont[1] = "submit"})

\* submitForm(): the task of the submit event; the submit button is
\* :disabled="isSubmitting"
submitForm ==
    LET authorId == ResolvedAuthorId
        endpoint == IF isEditMode THEN BlogEp(blogPost.id) ELSE BlogsEp
        method == IF isEditMode THEN "PUT" ELSE "POST"
    IN /\ formMounted /\ ~navigated
       /\ ~isSubmitting
       /\ lastOp' = Op("submitForm", 0)
       /\ IF ~Truthy(authorId)
          THEN /\ errors' = <<ErrAuthorRequired>>
               /\ isSubmitting' = FALSE
               /\ cache' = [cache EXCEPT !["form"] = clearCache(@, BlogsEp)]
               /\ NoIssue(pending)
               /\ navigated' = navigated
          ELSE IF CacheHas(cache["form"], endpoint)
               THEN /\ errors' = <<>>
                    /\ navigated' = TRUE
                    /\ isSubmitting' = FALSE
                    /\ cache' = [cache EXCEPT !["form"] = clearCache(@, BlogsEp)]
                    /\ NoIssue(pending)
               ELSE /\ NumSubmits < MaxSubmits
                    /\ errors' = <<>>
                    /\ isSubmitting' = TRUE
                    /\ Issue(pending, Request("form", endpoint, method,
                                              <<Payload(form, authorId)>>,
                                              Cont("submit", 0)))
                    /\ UNCHANGED <<cache, navigated>>
       /\ UNCHANGED <<log, listVars, authors, currentAuthor, blogPost, form,
                      routeId, formMounted>>

\* how the write of a submit may fail: a response whose status is not a
\* success, with a plain body text or with a body listing field errors, or no
\* response at all
SubmitFailures ==
    {[tag |-> "text", text |-> "server error"],
     [tag |-> "text", text |-> "{'errors': ['Title is required.']}"],
     [tag |-> "network"]}

\* what fetchData throws for a failure
Thrown(failure) ==
    IF failure.tag = "text" THEN Error(failure.text) ELSE TypeError

\* error.response && error.response.data && error.response.data.errors
\*     && Array.isArray(error.response.data.errors)
HasResponseErrors(error) ==
    /\ "response" \in DOMAIN error
    /\ "data" \in DOMAIN error.response
    /\ "errors" \in DOMAIN error.response.data

\* the catch block of submitForm
submitFormCatch(error) ==
    IF HasResponseErrors(error)
    THEN errors' = error.response.data.errors
    ELSE errors' = Append(errors, ErrUnexpected)

\* the response to the write of a submit arrives (or fetch() rejects):
\* navigateTo("/") on success, the catch block on what fetchData throws
\* otherwise; the finally block runs either way
SubmitResponse(r, ok, data) ==
    /\ r \in pending
    /\ net[r].inst = "form"
    /\ net[r].cont[1] = "submit"
    /\ lastOp' = Resp(r, ok, data)
    /\ NoIssue(pending \ {r})
    /\ IF ok
       THEN /\ cache' = [cache EXCEPT !["form"] =
                            clearCache(CacheSet(@, net[r].endpoint, data), BlogsEp)]
            /\ navigated' = TRUE
            /\ errors' = errors
       ELSE /\ cache' = [cache EXCEPT !["form"] = clearCache(@, BlogsEp)]
            /\ submitFormCatch(Thrown(data))
            /\ navigated' = navigated
    /\ isSubmitting' = FALSE
    /\ UNCHANGED <<log, listVars, authors, currentAuthor, blogPost, form,
                   routeId, formMounted>>

\* ----------------------------------------------------------- initial state
Init ==
    /\ cache = [i \in Instances |-> EmptyCache]
    /\ net = <<>>
    /\ pending = {}
    /\ lastOp = Op("setup", 0)
    /\ log = <<>>
    /\ isLoading = TRUE
    /\ isDeleting = FALSE
    /\ blogPosts = <<>>
    /\ showConfirmModal = FALSE
    /\ postToDelete = Null
    /\ selectedStatus = "all"
    /\ listMounted = FALSE
    /\ isSubmitting = FALSE
    /\ authors = <<>>
    /\ currentAuthor = ""
    /\ blogPost = NullBody
    /\ errors = <<>>
    /\ form = DefaultForm
    /\ routeId = 0
    /\ formMounted = FALSE
    /\ navigated = FALSE

NextApi ==
    \/ \E e \in ApiEndpoints, m \in ApiMethods : ApiFetch(e, m)
    \/ \E e \in ApiEndpoints : ApiClear(e)
    \/ \E r \in pending, d \in RawBodies : ApiRespond(r, TRUE, d)
    \/ \E r \in pending, d \in ErrTexts : ApiRespond(r, FALSE, d)

NextList ==
    \/ ListMounted
    \/ \E s \in Statuses \cup {"all"} : SelectStatus(s)
    \/ \E id \in PostIds : confirmDelete(id)
    \/ cancelDelete
    \/ proceedDelete
    \/ \E r \in pending, d \in ListBodies : LoadResponse(r, TRUE, d)
    \/ \E r \in pending : LoadResponse(r, FALSE, NoVal)
    \/ \E r \in pending, d \in ListBodies : ReloadResponse(r, TRUE, d)
    \/ \E r \in pending : ReloadResponse(r, FALSE, NoVal)
    \/ \E r \in pending : DeleteResponse(r, TRUE, Ack)
    \/ \E r \in pending : DeleteResponse(r, FALSE, NoVal)

NextForm ==
    \/ \E id \in {0} \cup PostIds : FormMounted(id)
    \/ \E r \in pending, d \in PostBodies(routeId) : PostResponse(r, TRUE, d)
    \/ \E r \in pending : PostResponse(r, FALSE, NoVal)
    \/ \E r \in pending, d \in AuthorBodies : AuthorsResponse(r, TRUE, d)
    \/ \E r \in pending : AuthorsResponse(r, FALSE, NoVal)
    \/ SetTitle("U")
    \/ SetContent("V")
    \/ \E st \in Statuses : SetStatus(st)
    \/ \E k \in 1..Len(authors) : SelectAuthor(k)
    \/ submitForm
    \/ \E r \in pending : SubmitResponse(r, TRUE, Ack)
    \/ \E r \in pending, d \in SubmitFailures : SubmitResponse(r, FALSE, d)

Next == NextApi \/ NextList \/ NextForm

Spec == Init /\ [][Next]_vars

SpecForm == Init /\ [][NextForm]_vars

SpecApi == Init /\ [][NextApi]_vars

\* the form from its mount on, nothing being typed or selected: the two
\* loads in either order of arrival, and submits
NextFormLoads ==
    \/ \E id \in {0} \cup PostIds : FormMounted(id)
    \/ \E r \in pending, d \in PostBodies(routeId) : PostResponse(r, TRUE, d)
    \/ \E r \in pending : PostResponse(r, FALSE, NoVal)
    \/ \E r \in pending, d \in AuthorBodies : AuthorsResponse(r, TRUE, d)
    \/ \E r \in pending : AuthorsResponse(r, FALSE, NoVal)
    \/ submitForm
    \/ \E r \in pending : SubmitResponse(r, TRUE, Ack)
    \/ \E r \in pending, d \in SubmitFailures : SubmitResponse(r, FALSE, d)

SpecFormLoads == Init /\ [][NextFormLoads]_vars

\* the list and the form alive in one session, each with the useApi instance
\* its setup created: loading the list, loading and submitting the form
NextListAndForm ==
    \/ ListMounted
    \/ \E r \in pending, d \in ListBodies : LoadResponse(r, TRUE, d)
    \/ \E id \in {0} \cup PostIds : FormMounted(id)
    \/ \E r \in pending, d \in PostBodies(routeId) : PostResponse(r, TRUE, d)
    \/ \E r \in pending, d \in AuthorBodies : AuthorsResponse(r, TRUE, d)
    \/ \E k \in 1..Len(authors) : SelectAuthor(k)
    \/ submitForm
    \/ \E r \in pending : SubmitResponse(r, TRUE, Ack)
    \/ \E r \in pending, d \in SubmitFailures : SubmitResponse(r, FALSE, d)

SpecListAndForm == Init /\ [][NextListAndForm]_vars

SpecList == Init /\ [][NextList]_vars

\* any BlogPost[] a GET blogs may answer with: ids and statuses in any order,
\* repeated or not
AnyPosts ==
    {[Post(id) EXCEPT !.status = st] : id \in PostIds, st \in Statuses}

PostSeqs == UNION {[1..n -> AnyPosts] : n \in 0..MaxPosts}

\* the list component once its first load was answered with some BlogPost[]
InitFilter ==
    \E posts \in PostSeqs :
        LET body == [tag |-> "list", data |-> posts] IN
        /\ cache = [i \in Instances |->
                       IF i = "list" THEN CacheSet(EmptyCache, BlogsEp, body)
                       ELSE EmptyCache]
        /\ net = <<Request("list", BlogsEp, "GET", NoBody, Cont("load", 0))>>
        /\ pending = {}
        /\ lastOp = Resp(1, TRUE, body)
        /\ log = <<>>
        /\ isLoading = FALSE
        /\ isDeleting = FALSE
        /\ blogPosts = posts
        /\ showConfirmModal = FALSE
        /\ postToDelete = Null
        /\ selectedStatus = "all"
        /\ listMounted = TRUE
        /\ isSubmitting = FALSE
        /\ authors = <<>>
        /\ currentAuthor = ""
        /\ blogPost = NullBody
        /\ errors = <<>>
        /\ form = DefaultForm
        /\ routeId = 0
        /\ formMounted = FALSE
        /\ navigated = FALSE

\* the status select of the loaded list: filteredBlogPosts is recomputed
NextFilter == \E s \in Statuses \cup {"all"} : SelectStatus(s)

SpecFilter == InitFilter /\ [][NextFilter]_vars

\* a post content about to be rendered with some maxLength
InitTruncate ==
    \E content \in Contents, maxLength \in MaxLengths :
        /\ cache = [i \in Instances |-> EmptyCache]
        /\ net = <<>>
        /\ pending = {}
        /\ lastOp = [op |-> "render", arg |-> maxLength, ok |-> TRUE,
                     data |-> [tag |-> "text", chars |-> content]]
        /\ log = <<>>
        /\ isLoading = FALSE
        /\ isDeleting = FALSE
        /\ blogPosts = <<>>
        /\ showConfirmModal = FALSE
        /\ postToDelete = Null
        /\ selectedStatus = "all"
        /\ listMounted = TRUE
        /\ isSubmitting = FALSE
        /\ authors = <<>>
        /\ currentAuthor = ""
        /\ blogPost = NullBody
        /\ errors = <<>>
        /\ form = DefaultForm
        /\ routeId = 0
        /\ formMounted = FALSE
        /\ navigated = FALSE

NextTruncate == RenderExcerpt

SpecTruncate == InitTruncate /\ [][NextTruncate]_vars

\* ======================================================== useApi claims
\* log positions of the fetchData calls
Calls == {k \in 1..Len(log) : log[k].ev = "call"}

\* log positions where call k settled (none while it awaits its response)
DoneAt(k) == {d \in 1..Len(log) : log[d].ev = "done" /\ log[d].call = log[k].call}

\* no clearCache(endpoint) between log positions i and j
NoClearBetween(i, j, endpoint) ==
    \A k \in (i + 1)..(j - 1) :
        ~(log[k].ev = "clear" /\ log[k].endpoint = endpoint)

\* no response of another network fetch of endpoint was stored between log
\* positions d and j
NoStoreBetween(d, j, endpoint) ==
    \A k \in (d + 1)..(j - 1) :
        ~(log[k].ev = "done" /\ log[k].endpoint = endpoint /\ log[k].ok
          /\ \E c \in Calls : log[c].call = log[k].call /\ log[c].req # 0)

\* C1 as stated: any two fetchData(E) calls on one instance with no
\* clearCache(E) between them issue at most one network request in total and
\* both return the identical value, also when the second is made while the
\* first awaits its response or after the first was rejected.
C1_AnyTwoCalls ==
    \A i \in Calls, j \in Calls :
        (i < j /\ log[i].endpoint = log[j].endpoint
              /\ NoClearBetween(i, j, log[i].endpoint))
        => /\ ~(log[i].req # 0 /\ log[j].req # 0)
           /\ \A di \in DoneAt(i), dj \in DoneAt(j) :
                  log[di].ok /\ log[dj].ok /\ log[di].val = log[dj].val

\* C1 amended: two fetchData(E) calls with no clearCache(E) between them, the
\* first having returned successfully before the second was made and no other
\* fetch of E having stored its response in between, issue at most one
\* network request in total (the second issues none) and the second returns
\* the value the first returned.
C1_SequentialCalls ==
    \A i \in Calls, j \in Calls :
        \A di \in DoneAt(i) :
            (i < j /\ di < j /\ log[di].ok
                   /\ log[i].endpoint = log[j].endpoint
                   /\ NoClearBetween(i, j, log[i].endpoint)
                   /\ NoStoreBetween(di, j, log[i].endpoint))
            => /\ log[j].req = 0
               /\ \E dj \in DoneAt(j) : log[dj].ok /\ log[dj].val = log[di].val

\* a first call went to the network and returned, then a second call of the
\* same endpoint was made and settled
C1_Witness ==
    \E i \in Calls, j \in Calls :
        /\ i < j /\ log[i].endpoint = log[j].endpoint
        /\ log[i].req # 0
        /\ NoClearBetween(i, j, log[i].endpoint)
        /\ \E di \in DoneAt(i) : di < j /\ log[di].ok
        /\ DoneAt(j) # {}

\* the log ends with clearCache(E) directly followed by fetchData(E)
ClearThenFetch(l) ==
    /\ Len(l) >= 2
    /\ l[Len(l) - 1].ev = "clear"
    /\ l[Len(l)].ev = "call"
    /\ l[Len(l)].endpoint = l[Len(l) - 1].endpoint

\* C3: clearCache(E) directly followed by fetchData(E) issues a network request
\* for E whatever the cache held; clearCache(E) removes E's entry and nothing
\* else, changes nothing when E has no entry, and a second clearCache(E)
\* leaves the state of the first.
C3_ClearThenFetch ==
    [][/\ (lastOp'.op = "fetchData" /\ ClearThenFetch(log'))
           => /\ Len(net') = Len(net) + 1
              /\ net'[Len(net')].inst = "api"
              /\ net'[Len(net')].endpoint = log'[Len(log')].endpoint
              /\ Len(net') \in pending'
       /\ (lastOp'.op = "clearCache")
           => LET e == log'[Len(log')].endpoint IN
              /\ DOMAIN cache'["api"] = DOMAIN cache["api"] \ {e}
              /\ \A k \in DOMAIN cache'["api"] : cache'["api"][k] = cache["api"][k]
              /\ (e \notin DOMAIN cache["api"] => cache' = cache)
              /\ (lastOp.op = "clearCache" /\ log[Len(log)].endpoint = e
                      => cache' = cache)
              /\ net' = net /\ pending' = pending
      ]_vars

\* an endpoint was fetched and cached, then cleared, then fetched again
C3_Witness ==
    /\ ClearThenFetch(log)
    /\ \E d \in 1..(Len(log) - 2) :
           /\ log[d].ev = "done" /\ log[d].ok
           /\ log[d].endpoint = log[Len(log)].endpoint
           /\ NoClearBetween(d, Len(log) - 1, log[d].endpoint)
    /\ log[Len(log)].req # 0

\* =================================================== list component claims
\* the last task was the arrival of the response of a request awaited by cont
ResponseOf(cont) ==
    lastOp.op = "response" /\ net[lastOp.arg].inst = "list"
        /\ net[lastOp.arg].cont[1] = cont

\* the requests a step issued
Issued == {k \in 1..Len(net') : k > Len(net)}

\* C4 as stated: whenever proceedDelete runs while a pending target id is set,
\* a DELETE network request for blogs/{id} is issued for that id, whatever
\* deletions came before.
C4_DeleteIsSent ==
    [][(lastOp'.op = "proceedDelete" /\ Truthy(postToDelete))
          => \E k \in Issued : /\ net'[k].method = "DELETE"
                               /\ net'[k].endpoint = BlogEp(postToDelete)]_vars

\* C5: when the response of a DELETE arrives with success, "blogs" is absent
\* from the list's cache and a GET blogs network request is issued and awaited,
\* though "blogs" was cached before; when the response of that reload arrives
\* with success, blogPosts is the data of that response.
C5_DeleteReloads ==
    [][/\ (lastOp'.op = "response" /\ lastOp'.ok
             /\ net[lastOp'.arg].inst = "list"
             /\ net[lastOp'.arg].method = "DELETE")
           => /\ ~(BlogsEp \in DOMAIN cache'["list"])
              /\ Len(net') = Len(net) + 1
              /\ net'[Len(net')].inst = "list"
              /\ net'[Len(net')].endpoint = BlogsEp
              /\ net'[Len(net')].method = "GET"
              /\ Len(net') \in pending'
       /\ (lastOp'.op = "response" /\ lastOp'.ok
             /\ net[lastOp'.arg].inst = "list"
             /\ net[lastOp'.arg].cont[1] = "reload")
           => blogPosts' = (IF "data" \in DOMAIN lastOp'.data
                            THEN lastOp'.data.data ELSE <<>>)
      ]_vars

\* the reload after a successful DELETE has answered with a list that differs
\* from an earlier answer for "blogs"
C5_Witness ==
    /\ ResponseOf("reload") /\ lastOp.ok
    /\ \E k \in 1..Len(net) : net[k].method = "DELETE" /\ k \notin pending
    /\ "data" \in DOMAIN lastOp.data
    /\ blogPosts = lastOp.data.data
    /\ blogPosts # <<>>

\* the last task ended a run of proceedDelete: its DELETE failed, or the
\* reload after its DELETE settled
DeleteCompleted ==
    \/ (ResponseOf("delete") /\ ~lastOp.ok)
    \/ ResponseOf("reload")

\* C6 as stated: after the delete confirmation completes, whether the DELETE
\* succeeded or failed, postToDelete is null, the modal is hidden and
\* isDeleting is false.
C6_AlwaysBackToIdle ==
    DeleteCompleted
        => postToDelete = Null /\ ~showConfirmModal /\ ~isDeleting

\* C6 amended: after the delete confirmation completes isDeleting is false
\* whether the DELETE succeeded or failed; postToDelete is null and the modal
\* hidden when the DELETE succeeded; when the DELETE failed, postToDelete and
\* the modal flag are left as they were.
C6_IdleOnSuccessOnly ==
    [][LET completed == lastOp'.op = "response" /\ net[lastOp'.arg].inst = "list"
           failed == completed /\ net[lastOp'.arg].cont[1] = "delete" /\ ~lastOp'.ok
           reloaded == completed /\ net[lastOp'.arg].cont[1] = "reload"
       IN /\ (failed \/ reloaded) => ~isDeleting'
          /\ reloaded => (postToDelete' = Null /\ ~showConfirmModal')
          /\ failed => (postToDelete' = postToDelete
                        /\ showConfirmModal' = showConfirmModal)
      ]_vars

\* a DELETE has failed and the target is still pending, the modal still shown
C6_Witness ==
    /\ ResponseOf("delete") /\ ~lastOp.ok
    /\ postToDelete # Null /\ showConfirmModal /\ ~isDeleting

\* C7: proceedDelete invoked with no pending target issues no request and
\* leaves the cache, posts, isLoading, isDeleting, the modal flag and the
\* pending target unchanged.
C7_NoTargetNoOp ==
    [][(lastOp'.op = "proceedDelete" /\ postToDelete = Null)
          => UNCHANGED <<cache, net, pending, blogPosts, isLoading, isDeleting,
                         showConfirmModal, postToDelete>>]_vars

\* proceedDelete has just run with no pending target, posts being displayed
C7_Witness ==
    /\ lastOp.op = "proceedDelete" /\ lastOp.arg = Null
    /\ postToDelete = Null
    /\ blogPosts # <<>>

\* =================================================== form component claims
\* the request a step issued is a write of the draft to endpoint
WriteIssued(method, endpoint, authorId) ==
    /\ Len(net') = Len(net) + 1
    /\ net'[Len(net')].inst = "form"
    /\ net'[Len(net')].method = method
    /\ net'[Len(net')].endpoint = endpoint
    /\ net'[Len(net')].body =
           <<[title |-> form.title, content |-> form.content,
              author_id |-> authorId, status |-> form.status]>>

\* the loaded list has an author whose name is the current-author string
NameMatches == \E k \in 1..Len(authors) : authors[k].name = currentAuthor

\* C2 as stated: in edit mode a submit whose resolved author id is truthy
\* sends a PUT network request to blogs/{id} carrying {title, content,
\* author_id, status}, and the form navigates only when the response of that
\* request arrives with success.
C2_EditSendsPut ==
    [][/\ (lastOp'.op = "submitForm" /\ isEditMode /\ Truthy(ResolvedAuthorId))
           => /\ WriteIssued("PUT", BlogEp(blogPost.id), ResolvedAuthorId)
              /\ navigated' = navigated
       /\ (isEditMode /\ ~navigated /\ navigated')
           => /\ lastOp'.op = "response" /\ lastOp'.ok
              /\ net[lastOp'.arg].method = "PUT"
      ]_vars

\* C8: a submit with no author of the loaded list named as the current-author
\* string and a falsy held author id leaves errors = <<"Author is required.">>,
\* issues no network request and does not navigate.
C8_AuthorRequired ==
    [][(lastOp'.op = "submitForm" /\ ~NameMatches /\ HeldAuthorId(form) \in {0, Null})
          => /\ errors' = <<"Author is required.">>
             /\ net' = net /\ pending' = pending
             /\ navigated' = navigated]_vars

\* a submit has just failed the author check, the authors being loaded
C8_Witness ==
    /\ lastOp.op = "submitForm"
    /\ ~NameMatches /\ HeldAuthorId(form) \in {0, Null}
    /\ authors # <<>>
    /\ errors = <<"Author is required.">>
    /\ ~navigated

\* a write request of a submit awaits its response
SubmitAwaiting == \E r \in pending : net[r].inst = "form" /\ net[r].cont[1] = "submit"

\* the last task ended a submit: submitForm ran to its end at once, or the
\* response of its write request arrived
SubmitEnded ==
    \/ (lastOp.op = "submitForm" /\ ~SubmitAwaiting)
    \/ (lastOp.op = "response" /\ net[lastOp.arg].inst = "form"
            /\ net[lastOp.arg].cont[1] = "submit")

\* C9: every submit (success, author validation failure, request failure) ends
\* with isSubmitting false and "blogs" absent from the form's cache, and
\* isSubmitting is true while the submit awaits its write request.
C9_SubmitCleanup ==
    /\ SubmitAwaiting => isSubmitting
    /\ SubmitEnded => (~isSubmitting /\ ~(BlogsEp \in DOMAIN cache["form"]))

\* the POST blogs of a submit has succeeded: its body was stored under "blogs"
\* and the finally block has run
C9_Witness ==
    /\ lastOp.op = "response" /\ lastOp.ok
    /\ net[lastOp.arg].inst = "form" /\ net[lastOp.arg].cont[1] = "submit"
    /\ net[lastOp.arg].endpoint = BlogsEp
    /\ navigated

\* C10: a submit in create mode whose author id (the id of the loaded author
\* named as the current-author string if there is one, else the draft's held
\* author id) is truthy issues a POST blogs network request with that
\* author_id.
C10_ResolvedAuthorPosted ==
    [][(lastOp'.op = "submitForm" /\ ~isEditMode)
          => /\ \A k \in 1..Len(authors) :
                    (authors[k].name = currentAuthor /\ authors[k].id # 0)
                        => WriteIssued("POST", BlogsEp, authors[k].id)
             /\ (~NameMatches /\ ~(HeldAuthorId(form) \in {0, Null}))
                    => WriteIssued("POST", BlogsEp, HeldAuthorId(form))
      ]_vars

\* authors [{id 1, name "Ann"}], current author "Ann", a falsy held author id,
\* create mode: the submit has sent POST blogs with author_id 1
C10_Witness ==
    /\ lastOp.op = "submitForm"
    /\ authors = <<[id |-> 1, name |-> "Ann"]>>
    /\ currentAuthor = "Ann"
    /\ HeldAuthorId(form) \in {0, Null}
    /\ ~isEditMode
    /\ net # <<>>
    /\ net[Len(net)].method = "POST" /\ net[Len(net)].endpoint = BlogsEp
    /\ net[Len(net)].body[1].author_id = 1
    /\ Len(net) \in pending

\* C21: when the form was mounted with a route id, no request of the form is
\* ever a POST to "blogs", whenever the submit is made relative to the
\* arrival of the post and of the authors.
C21_NoCreateWithRouteId ==
    routeId # 0
        => \A k \in 1..Len(net) :
               ~(net[k].inst = "form" /\ net[k].method = "POST"
                 /\ net[k].endpoint = BlogsEp)

\* C21 narrowed to the race alone: no POST to "blogs" is sent while the load
\* of the post of the route id is still awaited.
C21_NoCreateWhileLoading ==
    [][(routeId # 0 /\ lastOp'.op = "submitForm"
          /\ \E r \in pending : net[r].inst = "form" /\ net[r].cont[1] = "post")
          => \A k \in Issued : ~(net'[k].method = "POST"
                                    /\ net'[k].endpoint = BlogsEp)]_vars

\* C22: when the write request of a submit is rejected by fetchData (a
\* response whose status is not a success, whatever its body text says, or no
\* response), the generic message is appended to errors, errors is not
\* replaced by messages of the server, and the form does not navigate.
C22_RejectedSubmitGeneric ==
    [][(lastOp'.op = "response" /\ ~lastOp'.ok /\ net[lastOp'.arg].inst = "form"
          /\ net[lastOp'.arg].cont[1] = "submit")
          => /\ errors' = Append(errors, "An unexpected error occurred. Please try again.")
             /\ ~navigated' /\ ~isSubmitting'
             /\ ~HasResponseErrors(Thrown(lastOp'.data))]_vars

\* the write was answered with a failure status and a body that lists field
\* errors: errors holds the generic message only
C22_Witness ==
    /\ lastOp.op = "response" /\ ~lastOp.ok
    /\ net[lastOp.arg].inst = "form" /\ net[lastOp.arg].cont[1] = "submit"
    /\ lastOp.data = [tag |-> "text", text |-> "{'errors': ['Title is required.']}"]
    /\ errors = <<ErrUnexpected>>
    /\ ~navigated

\* C12: when the response to a fetchData(E) call has a non-success status, the
\* call throws an error whose message is the body text of that response, no
\* further request is issued and the cache is left exactly as it was.
C12_RejectsWithBodyText ==
    [][(lastOp'.op = "response" /\ ~lastOp'.ok /\ net[lastOp'.arg].inst = "api")
          => /\ Len(log') = Len(log) + 1
             /\ log'[Len(log')].ev = "done"
             /\ log'[Len(log')].call = net[lastOp'.arg].cont[2]
             /\ ~log'[Len(log')].ok
             /\ log'[Len(log')].val = [tag |-> "error", message |-> lastOp'.data.text]
             /\ net' = net
             /\ pending' = pending \ {lastOp'.arg}
             /\ cache' = cache]_vars

\* a call has just been rejected while the cache holds an entry
C12_Witness ==
    /\ lastOp.op = "response" /\ ~lastOp.ok /\ net[lastOp.arg].inst = "api"
    /\ log[Len(log)].ev = "done" /\ ~log[Len(log)].ok
    /\ log[Len(log)].val.message = "server error"
    /\ cache["api"] # EmptyCache
    /\ ~CacheHas(cache["api"], log[Len(log)].endpoint)

\* C13: an entry stored for endpoint E keeps its value through every step that
\* is neither clearCache(E) nor the arrival of a successful response to a
\* network fetch of E: calls and clears of other endpoints, cache-hit calls of
\* E with any method, and rejected fetches leave it in place.
C13_EntryPersists ==
    [][\A e \in DOMAIN cache["api"] :
          \/ (lastOp'.op = "clearCache" /\ log'[Len(log')].endpoint = e)
          \/ (lastOp'.op = "response" /\ lastOp'.ok /\ net[lastOp'.arg].endpoint = e)
          \/ (e \in DOMAIN cache'["api"] /\ cache'["api"][e] = cache["api"][e])
      ]_vars

\* an endpoint was fetched and stored, the other endpoint was then cleared,
\* and a POST call of the first has just been answered from the cache
C13_Witness ==
    /\ lastOp.op = "fetchData" /\ lastOp.data.method = "POST"
    /\ Len(log) >= 5
    /\ log[Len(log) - 1].ev = "call" /\ log[Len(log) - 1].req = 0
    /\ log[Len(log) - 2].ev = "clear"
    /\ log[Len(log) - 2].endpoint # log[Len(log)].endpoint
    /\ CacheHas(cache["api"], log[Len(log)].endpoint)
    /\ log[Len(log)].val = cache["api"][log[Len(log)].endpoint]

\* a response of a network fetch of endpoint was stored at log position d
StoredAt(d, endpoint) ==
    /\ log[d].ev = "done" /\ log[d].endpoint = endpoint /\ log[d].ok
    /\ \E c \in Calls : log[c].call = log[d].call /\ log[c].req # 0

\* endpoint has no cache entry when the call at log position k is made
UncachedAt(k, endpoint) ==
    \A d \in 1..(k - 1) :
        StoredAt(d, endpoint) => ~NoClearBetween(d, k, endpoint)

\* C17: two fetchData(E) calls, each made while E has no entry and the second
\* before the response to the first arrived, issue one request for E each;
\* when the response of the later arrival has just come in, both having
\* succeeded, the entry of E is the body of that later response, whichever
\* call it answers.
C17_LastArrivalWins ==
    \A i \in Calls, j \in Calls :
        LET E == log[i].endpoint IN
        (/\ i < j /\ log[j].endpoint = E
         /\ UncachedAt(i, E) /\ UncachedAt(j, E)
         /\ \A di \in DoneAt(i) : j < di)
        => /\ log[i].req # 0 /\ log[j].req # 0 /\ log[i].req # log[j].req
           /\ net[log[i].req].endpoint = E /\ net[log[j].req].endpoint = E
           /\ \A di \in DoneAt(i), dj \in DoneAt(j) :
                  (log[di].ok /\ log[dj].ok /\ Len(log) \in {di, dj})
                  => /\ lastOp.op = "response"
                     /\ lastOp.arg = (IF di > dj THEN log[i].req ELSE log[j].req)
                     /\ CacheHas(cache["api"], E)
                     /\ CacheGet(cache["api"], E) = lastOp.data

\* the response to the second call arrived first, then the response to the
\* first call with another body, which is the entry now
C17_Witness ==
    \E i \in Calls, j \in Calls :
        /\ i < j /\ log[j].endpoint = log[i].endpoint
        /\ log[i].req # 0 /\ log[j].req # 0
        /\ \E di \in DoneAt(i), dj \in DoneAt(j) :
               /\ j < dj /\ dj < di /\ di = Len(log)
               /\ log[di].ok /\ log[dj].ok /\ log[di].val # log[dj].val
               /\ cache["api"][log[i].endpoint] = log[di].val

\* both loads of a form mounted with a route id were answered successfully:
\* the form's Map holds both bodies
BothLoaded ==
    /\ routeId # 0
    /\ CacheHas(cache["form"], BlogEp(routeId))
    /\ CacheHas(cache["form"], AuthorsEp)

\* the two bodies
LoadedPost == CacheGet(cache["form"], BlogEp(routeId))

LoadedAuthors == CacheGet(cache["form"], AuthorsEp).data

\* the author name a post body carries
NameIn(P) == IF P.tag = "post" THEN P.author ELSE ""

\* the draft a post body alone determines
DraftFrom(P) ==
    IF P.tag = "post"
    THEN [title |-> P.title, content |-> P.content, status |-> P.status,
          author |-> IF P.author = "" THEN AuthorObj(0, "") ELSE AuthorStr(P.author)]
    ELSE DefaultForm

\* the author id the two bodies alone determine: the id of the first listed
\* author named as the post says, else the id the draft's author holds
IdFrom(P, A) ==
    LET hits == {k \in 1..Len(A) : A[k].name = NameIn(P)}
    IN IF hits # {} THEN A[CHOOSE k \in hits : \A j \in hits : k <= j].id
       ELSE IF NameIn(P) = "" THEN 0 ELSE Null

\* C18: once the post load and the authors load of the form have both been
\* answered successfully, nothing having been typed or selected, blogPost,
\* authors, currentAuthor and the draft are determined by the two bodies
\* alone, whichever arrived first, and so is the author id a submit resolves:
\* it is refused or posts that id.
C18_LoadsCommute ==
    [][BothLoaded'
          => /\ blogPost' = LoadedPost'
             /\ authors' = LoadedAuthors'
             /\ currentAuthor' = NameIn(LoadedPost')
             /\ form' = DraftFrom(LoadedPost')
             /\ ResolvedAuthorId' = IdFrom(LoadedPost', LoadedAuthors')
             /\ (BothLoaded /\ lastOp'.op = "submitForm")
                   => IF Truthy(IdFrom(LoadedPost, LoadedAuthors))
                      THEN /\ errors' = <<>>
                           /\ \A k \in (Len(net) + 1)..Len(net') :
                                  net'[k].body[1].author_id
                                      = IdFrom(LoadedPost, LoadedAuthors)
                      ELSE errors' = <<ErrAuthorRequired>> /\ net' = net
      ]_vars

\* the post arrived after the authors, names a listed author, and the id of
\* that author is resolved
C18_Witness ==
    /\ BothLoaded
    /\ lastOp.op = "response" /\ net[lastOp.arg].cont[1] = "post"
    /\ LoadedPost.tag = "post" /\ LoadedPost.author = "Bob"
    /\ Len(authors) = 2
    /\ ResolvedAuthorId = 2

\* the same with the authors arriving after the post
C18_WitnessAuthorsLast ==
    /\ BothLoaded
    /\ lastOp.op = "response" /\ net[lastOp.arg].cont[1] = "authors"
    /\ LoadedPost.tag = "post" /\ LoadedPost.author = "Bob"
    /\ Len(authors) = 2
    /\ ResolvedAuthorId = 2

\* the draft's title, content and status are those of the post, or the
\* defaults when there is none
DraftTextFrom(f, P) ==
    IF P.tag = "post"
    THEN /\ f.title = P.title /\ f.content = P.content
         /\ f.status = (IF P.status = "" THEN "published" ELSE P.status)
    ELSE f = DefaultForm

\* C19: whenever blogPost changes the draft is replaced, its title, content
\* and status being those of the new post, or the whole draft the defaults
\* when there is no post; and the draft's author is always an Author (an id
\* and a name) or the placeholder {id 0, name ""}, so the id it holds is
\* defined.
C19_DraftAuthorIsAuthor ==
    [][/\ blogPost' # blogPost => DraftTextFrom(form', blogPost')
       /\ form'.author.kind = "obj"
       /\ HeldAuthorId(form') # Null]_vars

\* the part of C19 on title, content and status alone
C19_DraftTextReplaced ==
    [][blogPost' # blogPost => DraftTextFrom(form', blogPost')]_vars

\* C20: in every state of the list component showConfirmModal is true
\* exactly when postToDelete is not null, and isDeleting is true only while
\* postToDelete is not null.
C20_ModalIffTarget ==
    /\ showConfirmModal <=> postToDelete # Null
    /\ isDeleting => postToDelete # Null

\* while a DELETE is in flight another post was picked for deletion
C20_Witness ==
    /\ isDeleting /\ showConfirmModal
    /\ lastOp.op = "confirmDelete"
    /\ \E r \in pending :
           net[r].method = "DELETE" /\ net[r].endpoint # BlogEp(postToDelete)

\* C14: when the request of a list load fails, blogPosts is left as it was and
\* isLoading ends false; fetchBlogPosts does not rethrow, so when the failed
\* load is the reload after a successful DELETE, proceedDelete still hides the
\* modal, clears postToDelete and ends with isDeleting false.
C14_LoadFailureSwallowed ==
    [][LET failed == lastOp'.op = "response" /\ ~lastOp'.ok
                         /\ net[lastOp'.arg].inst = "list"
                         /\ net[lastOp'.arg].endpoint = BlogsEp
       IN /\ failed => (blogPosts' = blogPosts /\ ~isLoading')
          /\ (failed /\ net[lastOp'.arg].cont[1] = "reload")
                => (~showConfirmModal' /\ postToDelete' = Null /\ ~isDeleting')
      ]_vars

\* the reload after a successful DELETE has failed: the posts listed before
\* are still displayed, the modal is closed
C14_Witness ==
    /\ ResponseOf("reload") /\ ~lastOp.ok
    /\ \E k \in 1..Len(net) : net[k].method = "DELETE" /\ k \notin pending
    /\ blogPosts # <<>>
    /\ ~isLoading /\ ~showConfirmModal /\ postToDelete = Null

\* positions of the posts of a status
Kept(posts, status) == {k \in 1..Len(posts) : posts[k].status = status}

\* the i-th smallest position of K
Nth(K, i) == CHOOSE k \in K : Cardinality({j \in K : j <= k}) = i

\* out is exactly the posts of that status, in their order in posts
IsSubsequenceOfStatus(out, posts, status) ==
    /\ Len(out) = Cardinality(Kept(posts, status))
    /\ \A i \in 1..Len(out) : out[i] = posts[Nth(Kept(posts, status), i)]

\* C15: whenever a status is selected, filteredBlogPosts is blogPosts itself
\* for "all" and otherwise exactly the posts whose status is the selected
\* one, in their order in blogPosts; blogPosts is left as it was.
C15_FilteredView ==
    [][lastOp'.op = "selectStatus"
          => /\ IF selectedStatus' = "all" THEN filteredBlogPosts' = blogPosts'
                ELSE IsSubsequenceOfStatus(filteredBlogPosts', blogPosts',
                                           selectedStatus')
             /\ blogPosts' = blogPosts]_vars

\* a filter that drops one post and keeps two different ones
C15_Witness ==
    /\ lastOp.op = "selectStatus" /\ selectedStatus = "published"
    /\ Len(blogPosts) = 3 /\ Len(filteredBlogPosts) = 2
    /\ filteredBlogPosts[1] # filteredBlogPosts[2]
    /\ blogPosts[2].status = "unpublished"

\* C16: truncateContent returns the text itself when its length is at most
\* the maximum (100 when none is given), and otherwise the first maxLength
\* characters of the text followed by three dots; "hello" with 10 stays
\* "hello" and "0123456789X" with 10 becomes "0123456789...".
C16_Truncate ==
    [][lastOp'.op = "truncateContent"
          => LET content == lastOp.data.chars
                 max == IF lastOp.arg = Null THEN 100 ELSE lastOp.arg
                 result == lastOp'.data.result
             IN /\ IF Len(content) <= max THEN result = content
                   ELSE /\ Len(result) = max + 3
                        /\ \A i \in 1..max : result[i] = content[i]
                        /\ \A i \in (max + 1)..(max + 3) : result[i] = "."
                /\ (content = <<"h", "e", "l", "l", "o">> /\ max = 10)
                      => result = <<"h", "e", "l", "l", "o">>
                /\ (content = <<"0", "1", "2", "3", "4", "5", "6", "7", "8",
                                "9", "X">> /\ max = 10)
                      => result = <<"0", "1", "2", "3", "4", "5", "6", "7",
                                    "8", "9", ".", ".", ".">>]_vars

\* a text of 101 characters was cut to 100 and the dots, by the default
C16_Witness ==
    /\ lastOp.op = "truncateContent" /\ lastOp.arg = Null
    /\ Len(lastOp.data.chars) = 101
    /\ Len(lastOp.data.result) = 103
    /\ lastOp.data.result[100] = lastOp.data.chars[100]

\* ============================================= list and form together
\* C11 as stated: after a submit of the form has finished, "blogs" is absent
\* from the cache the list reads, so the list's next fetchData("blogs") goes
\* to the network.
C11_SubmitClearsListCache ==
    SubmitEnded => ~CacheHas(cache["list"], BlogsEp)

====
